---- MODULE Spec2Model ----
(***************************************************************************)
(* The parallel directory walker of fzc (src/fzc.cpp): the FZC calculator  *)
(* object, calculateFolderSizes, processDirectoryParallel and processBatch *)
(* as a state machine of worker lanes over a static filesystem.            *)
(*                                                                         *)
(* A path is the sequence of its components: "/System/Volumes/Data/a" is   *)
(* <<"System","Volumes","Data","a">>; the empty sequence is the empty      *)
(* string (the initial value of m_entryPath).  A shared_ptr<FileNode> is a *)
(* sequence of at most one node record: <<>> is nullptr.                   *)
(***************************************************************************)
EXTENDS Integers, Sequences, FiniteSets, TLC

\* ------------------------------------------------------------------ bounds
\* largest pool size (m_maxThreads) a calculator is constructed with
MaxPool == 2

\* entries per batch.  The source drains batches of 64 (fzc.hpp:79); the
\* model drains batches of BatchSize so that a directory of three entries
\* has a full batch and a partial one.
BatchSize == 2

\* levels of the deepest chain of directories below the data root: one more
\* than the depth cap, so that a directory at the cap has a subdirectory
DeepLevels == 9

\* ------------------------------------------------------- program constants
m_maxDepthForParallelism == 8
\* the command-line front-end constructs FZC(useParallel, maxThreads, false)
m_useAllocatedSize == FALSE

\* ------------------------------------------------------------------ paths
DataRoot == <<"System", "Volumes", "Data">>

\* component names in the byte order std::string::operator< gives them
NameOrder ==
    <<"Data", "System", "Users", "Volumes", "a", "b", "f", "l", "o", "x">>

NameRank(n) == CHOOSE i \in 1..Len(NameOrder) : NameOrder[i] = n

Min(a, b) == IF a < b THEN a ELSE b

IsPrefix(a, b) == Len(a) <= Len(b) /\ SubSeq(b, 1, Len(a)) = a

IsStrictPrefix(a, b) == Len(a) < Len(b) /\ SubSeq(b, 1, Len(a)) = a

\* a->path < b->path on std::string: the first differing component decides,
\* a proper prefix is smaller
PathLess(a, b) ==
    \/ IsStrictPrefix(a, b)
    \/ \E i \in 1..Min(Len(a), Len(b)) :
          /\ SubSeq(a, 1, i - 1) = SubSeq(b, 1, i - 1)
          /\ NameRank(a[i]) < NameRank(b[i])

\* ------------------------------------------------------------- filesystem
\* What lstat/stat/access/readdir report for a path:
\*   kind      "none" (lstat fails), "file", "dir", "link", "other"
\*   size      st_size of lstat (a link: the length of its target string)
\*   alloc     the allocated size getattrlist reports, 0 when it fails
\*   readable  access(path, R_OK) = 0 (access follows a link to its target)
\*   ino, dev  st_ino, st_dev
\*   entries   the names readdir yields, in the order it yields them
\*   limit     how many of them the iterator yields
\*   throws    whether the iterator raises filesystem_error after that
Absent ==
    [kind |-> "none", size |-> 0, alloc |-> 0, readable |-> FALSE, ino |-> 0,
     dev |-> 0, entries |-> <<>>, limit |-> 0, throws |-> FALSE]

File(sz, i) ==
    [kind |-> "file", size |-> sz, alloc |-> sz, readable |-> TRUE, ino |-> i,
     dev |-> 1, entries |-> <<>>, limit |-> 0, throws |-> FALSE]

Link(len, ok, i) ==
    [kind |-> "link", size |-> len, alloc |-> 0, readable |-> ok, ino |-> i,
     dev |-> 1, entries |-> <<>>, limit |-> 0, throws |-> FALSE]

Dir(names, i) ==
    [kind |-> "dir", size |-> 1, alloc |-> 1, readable |-> TRUE, ino |-> i,
     dev |-> 1, entries |-> names, limit |-> Len(names), throws |-> FALSE]

Other(i) ==
    [kind |-> "other", size |-> 0, alloc |-> 0, readable |-> TRUE, ino |-> i,
     dev |-> 1, entries |-> <<>>, limit |-> 0, throws |-> FALSE]

Sub(n) == DataRoot \o <<n>>

Sub2(n, m) == DataRoot \o <<n, m>>

\* the directory k levels below the data root on the chain b/b/.../b
Chain(k) == DataRoot \o [i \in 1..k |-> "b"]

DeepPaths == {Chain(k) : k \in 3..DeepLevels}

AllPaths ==
    {DataRoot, <<"Users">>, <<"f">>, <<"l">>, <<"o">>, <<"x">>}
    \cup {Sub(n) : n \in {"Users", "a", "b"}}
    \cup {Sub2(n, m) : n \in {"Users", "a", "b"}, m \in {"a", "b"}}
    \cup {DataRoot \o <<n, "b", "a">> : n \in {"a", "b"}}
    \cup DeepPaths

\* The filesystems of the model: the data volume with three entries
\*   b      a directory (two files, or a file and a nested directory); its
\*          iterator may raise, it may be a mount point, the system may
\*          be unable to start a thread for its task, and it may head a
\*          chain of directories DeepLevels deep
\*   Users  a directory the firmlink table covers
\*   a      a file, a link, an unreadable entry, or a second hard link of
\*          the directory b
\* varied along four axes, and beside it /f a file, /l a link, /o a socket,
\* /x nothing, /Users the installed twin of Data/Users.
KindsOfA == {"file", "empty", "link", "dangling", "noaccess", "twin"}

KindsOfUsers == {"plain", "alias", "noaccess"}

KindsOfB ==
    {"flat", "nested", "throws1", "throws2", "mount", "nothread", "deep"}

\* the root's iterator: -1 it ends normally, k >= 0 it raises after k entries
RootFaults == {-1, 0, 1, 2, 3}

MkFs(ka, ku, kb, fault) ==
    [at |-> [p \in AllPaths |->
        CASE p = DataRoot ->
               [Dir(<<"Users", "b", "a">>, 2) EXCEPT
                   !.limit = (IF fault < 0 THEN 3 ELSE fault),
                   !.throws = (fault >= 0)]
          [] p = <<"Users">> -> Dir(<<>>, 3)
          [] p = <<"f">> -> File(2, 4)
          [] p = <<"l">> -> Link(1, FALSE, 5)
          [] p = <<"o">> -> Other(13)
          [] p = <<"x">> -> Absent
          [] p = Sub("Users") ->
               [Dir(<<"a">>, IF ku = "alias" THEN 3 ELSE 6) EXCEPT
                   !.readable = (ku # "noaccess")]
          [] p = Sub2("Users", "a") -> File(2, 7)
          [] p = Sub2("Users", "b") -> Absent
          [] p = Sub("a") ->
               (CASE ka = "file" -> File(2, 8)
                  [] ka = "empty" -> File(0, 8)
                  [] ka = "link" -> Link(1, TRUE, 8)
                  [] ka = "dangling" -> Link(1, FALSE, 8)
                  [] ka = "noaccess" ->
                       [File(2, 8) EXCEPT !.readable = FALSE]
                  [] ka = "twin" -> Dir(<<"b", "a">>, 9))
          [] p = Sub2("a", "a") ->
               IF ka = "twin" THEN File(1, 10) ELSE Absent
          [] p = Sub2("a", "b") ->
               IF ka # "twin" THEN Absent
               ELSE IF kb = "nested" THEN Dir(<<"a">>, 11)
               ELSE File(1, 11)
          [] p = DataRoot \o <<"a", "b", "a">> ->
               IF ka = "twin" /\ kb = "nested" THEN File(2, 12) ELSE Absent
          [] p = Sub("b") ->
               [Dir(<<"b", "a">>, 9) EXCEPT
                   !.limit = (IF kb = "throws1" THEN 1 ELSE 2),
                   !.throws = (kb \in {"throws1", "throws2"}),
                   !.dev = (IF kb = "mount" THEN 2 ELSE 1)]
          [] p = Sub2("b", "a") -> File(1, 10)
          [] p = Sub2("b", "b") ->
               IF kb = "nested" THEN Dir(<<"a">>, 11)
               ELSE IF kb = "deep" THEN Dir(<<"b">>, 11)
               ELSE File(1, 11)
          [] p \in DeepPaths ->
               IF kb # "deep" THEN Absent
               ELSE IF Len(p) < Len(Chain(DeepLevels))
               THEN Dir(<<"b">>, 20 + Len(p))
               ELSE Dir(<<>>, 20 + Len(p))
          [] p = DataRoot \o <<"b", "b", "a">> ->
               IF kb = "nested" THEN File(2, 12) ELSE Absent],
     mounts |-> IF kb = "mount" THEN {Sub("b")} ELSE {},
     nothread |-> IF kb = "nothread" THEN {Sub("b")} ELSE {}]

\* at most one of the three entries away from the plain layout, and every
\* fault of the root's iterator on the plain layout, on the one with b
\* nested and on the one with a unreadable; the layout with b nested and a
\* its twin, two directories that hold a directory each; and the deep
\* layout
FsSet ==
    {MkFs(v[1], v[2], v[3], v[4]) :
        v \in {w \in KindsOfA \X KindsOfUsers \X (KindsOfB \ {"deep"})
                       \X RootFaults :
                  /\ \/ w[1] = "file" /\ w[2] = "plain"
                     \/ w[1] = "file" /\ w[3] = "flat"
                     \/ w[2] = "plain" /\ w[3] = "flat"
                  /\ \/ w[4] = -1
                     \/ /\ w[1] \in {"file", "noaccess"}
                        /\ w[2] = "plain"
                        /\ w[3] \in {"flat", "nested"}}}
    \cup {MkFs("twin", "plain", "nested", -1), MkFs("file", "plain", "deep", -1)}

\* the paths a caller passes to calculateFolderSizes
ScanRoots ==
    {DataRoot, Sub("Users"), Sub("b"), Sub("a"), <<"f">>, <<"l">>, <<"o">>,
     <<"x">>}

\* ------------------------------------------------------------------ state
VARIABLES
    fs,                    \* the filesystem, static
    includeDirectorySize,  \* the caller's include-self-size flag
    m_maxThreads,          \* FZC::m_maxThreads
    m_activeThreads,       \* FZC::m_activeThreads
    m_processedPaths,      \* FZC::m_processedPaths
    m_entryPath,           \* FZC::m_entryPath
    used,                  \* the calculator has served a call already
    phase,                 \* "idle", or "running" inside calculateFolderSizes
    call,                  \* the arguments of the running call
    stacks,                \* lane -> its stack of processDirectoryParallel frames
    done,                  \* spawned task -> the value its future holds
    hist,                  \* what the running (or last) call evaluated
    cur,                   \* the last call and its result, once it returned
    prev,                  \* the call before it, if it was given the same path
    series,                \* root sizes of a directory's and its entries' scans
    unit,                  \* a function examined on its own: arguments, result
    api                    \* a result of the C interface, its handles, the heap

vars ==
    <<fs, includeDirectorySize, m_maxThreads, m_activeThreads,
      m_processedPaths, m_entryPath, used, phase, call, stacks, done, hist,
      cur, prev, series, unit, api>>

\* the state of the walker
walker ==
    <<fs, includeDirectorySize, m_maxThreads, m_activeThreads,
      m_processedPaths, m_entryPath, used, phase, call, stacks, done, hist,
      cur, prev, series>>

\* the state outside the walker, which no step of the walker touches
outside == <<unit, api>>

NoUnit == [fn |-> "none"]

NoApi == [result |-> "unused"]

\* the lane that runs calculateFolderSizes; a spawned lane is named by the
\* directory its task walks
MainLane == <<>>

EmptyMap == [k \in {} |-> <<>>]

Without(f, ks) == [k \in (DOMAIN f) \ ks |-> f[k]]

NoCall ==
    [valid |-> FALSE, path |-> <<>>, rootOnly |-> FALSE, fresh |-> FALSE,
     root |-> <<>>]

\* what a call has done so far:
\*   skipped     the paths shouldSkipDirectory answered true for
\*   walked      the directories whose iteration was started
\*   classified  the entries the loop body of processBatch has run on
\*   entered     the paths processDirectoryParallel was called with
\*   again       the paths classified or entered a second time
NoHist ==
    [skipped |-> {}, walked |-> {}, classified |-> {}, entered |-> {},
     again |-> {}]

\* ---------------------------------------------------------------- probes
\* a path outside the model's universe does not exist
At(p) == IF p \in AllPaths THEN fs.at[p] ELSE Absent

FileNode(p, s, isDir) ==
    [path |-> p, size |-> s, isDirectory |-> isDir, children |-> <<>>]

isSymLink(p) == At(p).kind = "link"

hasAccessPermission(p) == At(p).readable

\* fs::exists follows a link: a link exists when its target can be reached
Exists(p) ==
    IF At(p).kind = "link" THEN At(p).readable
    ELSE At(p).kind # "none"

is_regular_file(p) == At(p).kind = "file"

is_directory(p) == At(p).kind = "dir"

\* statfs follows a link and fails on a path it cannot resolve
getFsType(p) == IF Exists(p) THEN "apfs" ELSE ""

getDeviceId(p) == IF Exists(p) THEN At(p).dev ELSE 0

\* calculateFolderSizes records the filesystem type of the path it is given
m_entryFsType == IF call.path \in AllPaths THEN getFsType(call.path) ELSE ""

\* FileSizeByFsType without the test of line 411: a zero allocated size
\* falls back to st_size on every filesystem type
FileSizeByFsTypeAlwaysFallback(st, useAllocatedSize, entryFsType) ==
    IF st.kind = "none" THEN 0
    ELSE IF useAllocatedSize /\ st.alloc > 0 THEN st.alloc
    ELSE st.size

\* getFileSizeByFsType on what lstat and getattrlist report for the path
\* (st), in a calculator constructed with useAllocatedSize whose entry lies
\* on a filesystem of type entryFsType
FileSizeByFsType(st, useAllocatedSize, entryFsType) ==
    IF st.kind = "none" THEN 0
    ELSE IF useAllocatedSize /\ st.alloc > 0 THEN st.alloc
    ELSE IF useAllocatedSize /\ entryFsType \in {"apfs", "hfs"}
         THEN st.alloc
    ELSE st.size

getFileSizeByFsType(p) ==
    FileSizeByFsType(At(p), m_useAllocatedSize, m_entryFsType)

\* getFileInfo on the same: <<size, isDir>>
FileInfo(st, useAllocatedSize, entryFsType) ==
    IF st.kind = "none" THEN <<0, FALSE>>
    ELSE IF st.kind = "link" THEN <<st.size, FALSE>>
    ELSE <<FileSizeByFsType(st, useAllocatedSize, entryFsType),
           st.kind = "dir">>

getFileInfo(p) == FileInfo(At(p), m_useAllocatedSize, m_entryFsType)

processFile(p) == FileNode(p, getFileInfo(p)[1], getFileInfo(p)[2])

is_hard_link(p1, p2) ==
    /\ At(p1).kind # "none"
    /\ At(p2).kind # "none"
    /\ At(p1).ino = At(p2).ino

\* ---------------------------------------------------------- boundary oracle
\* getMountPoints: the mount table entries the constructor keeps
getMountPoints == fs.mounts

m_mountPoints == getMountPoints

m_dataRoots == {DataRoot}

\* key: the installed path, value: the path relative to a data root
m_firmlinkMap ==
    {[key |-> <<"AppleInternal">>, value |-> <<"AppleInternal">>],
     [key |-> <<"Applications">>, value |-> <<"Applications">>],
     [key |-> <<"Library">>, value |-> <<"Library">>],
     [key |-> <<"System", "Library", "Caches">>,
      value |-> <<"System", "Library", "Caches">>],
     [key |-> <<"System", "Library", "Assets">>,
      value |-> <<"System", "Library", "Assets">>],
     [key |-> <<"System", "Library", "PreinstalledAssets">>,
      value |-> <<"System", "Library", "PreinstalledAssets">>],
     [key |-> <<"System", "Library", "AssetsV2">>,
      value |-> <<"System", "Library", "AssetsV2">>],
     [key |-> <<"System", "Library", "PreinstalledAssetsV2">>,
      value |-> <<"System", "Library", "PreinstalledAssetsV2">>],
     [key |-> <<"System", "Library", "CoreServices", "CoreTypes.bundle",
                "Contents", "Library">>,
      value |-> <<"System", "Library", "CoreTypes.bundle", "Contents",
                  "Library">>],
     [key |-> <<"System", "Library", "Speech">>,
      value |-> <<"System", "Library", "Speech">>],
     [key |-> <<"Users">>, value |-> <<"Users">>],
     [key |-> <<"Volumes">>, value |-> <<"Volumes">>],
     [key |-> <<"cores">>, value |-> <<"cores">>],
     [key |-> <<"opt">>, value |-> <<"opt">>],
     [key |-> <<"private">>, value |-> <<"private">>],
     [key |-> <<"usr", "local">>, value |-> <<"usr", "local">>],
     [key |-> <<"usr", "libexec", "cups">>,
      value |-> <<"usr", "libexec", "cups">>],
     [key |-> <<"usr", "share", "snmp">>, value |-> <<"usr", "share", "snmp">>]}

isMountPoint(p) == p \in m_mountPoints

isSubPathOfMountPoint(p) ==
    /\ p # <<>>
    /\ \E m \in m_mountPoints : IsStrictPrefix(m, p)

\* the path lies strictly under a data root and what follows the data root
\* equals a firmlink value or descends into it
isCoveredByFirmlink(p) ==
    \E r \in m_dataRoots :
        /\ p # r
        /\ IsStrictPrefix(r, p)
        /\ \E kv \in m_firmlinkMap :
              IsPrefix(kv.value, SubSeq(p, Len(r) + 1, Len(p)))

\* startsWith(path, m_entryPath + "/"): the empty entry path gives "/",
\* which every absolute path starts with
BeneathEntry(p, e) == IF e = <<>> THEN TRUE ELSE IsStrictPrefix(e, p)

\* m_entryPath after shouldSkipDirectory(p) has run
EntryPathAfter(p) ==
    IF isCoveredByFirmlink(p) THEN m_entryPath
    ELSE IF m_processedPaths = {} THEN p
    ELSE m_entryPath

\* the ordered rules of shouldSkipDirectory over what its tests return:
\*   covered     isCoveredByFirmlink(path)
\*   mount       isMountPoint(path)
\*   same        path == m_entryPath
\*   beneath     startsWith(path, m_entryPath + "/")
\*   sub         isSubPathOfMountPoint(path)
\*   entryDev    getDeviceId(m_entryPath), 0 when stat fails
\*   pathDev     getDeviceId(path), 0 when stat fails
\*   entryMount  isMountPoint(m_entryPath)
SkipDecision(covered, mount, same, beneath, sub, entryDev, pathDev, entryMount) ==
    IF covered THEN TRUE
    ELSE IF mount
         THEN IF same THEN FALSE ELSE beneath
    ELSE IF sub
         THEN IF entryDev # 0 /\ pathDev # 0 /\ entryDev = pathDev
              THEN FALSE
              ELSE ~(beneath /\ entryMount)
    ELSE FALSE

\* the value shouldSkipDirectory(p) returns
shouldSkipDirectory(p) ==
    LET e == EntryPathAfter(p) IN
    SkipDecision(isCoveredByFirmlink(p), isMountPoint(p), p = e,
                 BeneathEntry(p, e), isSubPathOfMountPoint(p),
                 getDeviceId(e), getDeviceId(p), isMountPoint(e))

\* the parent is not "/" and /<basename> is a hard link of the path
AliasesRootChild(p) ==
    /\ Len(p) >= 2
    /\ Exists(<<p[Len(p)]>>)
    /\ is_hard_link(p, <<p[Len(p)]>>)

\* ------------------------------------------------------------------ frames
\* One activation of processDirectoryParallel:
\*   node     the FileNode under construction
\*   pos      how many entries the directory iterator has yielded
\*   batch    the paths waiting in the batch vector
\*   futures  the spawned tasks, in the order they were pushed
\*   pc       "enter"  at the top of the function
\*            "iter"   in the for statement, about to advance the iterator
\*            "batch"  in processBatch, at the first entry of batch
\*            "locked" in processBatch, about to take m_threadMutex
\*            "inline" in processBatch, inside an inline recursive call
\*            "join"   at the loop over futures
\*            "unwind" leaving through the catch of an iterator error
NewFrame(p, d, ro) ==
    [path |-> p, depth |-> d, rootOnly |-> ro, node |-> FileNode(p, 0, TRUE),
     pos |-> 0, batch |-> <<>>, futures |-> <<>>, pc |-> "enter"]

Top(l) == stacks[l][Len(stacks[l])]

Below(l) == SubSeq(stacks[l], 1, Len(stacks[l]) - 1)

RECURSIVE SumSizes(_)
SumSizes(s) == IF s = <<>> THEN 0 ELSE s[1].size + SumSizes(Tail(s))

\* Attach that also writes the nodes attached earlier: it prunes them
AttachPruning(node, val) ==
    [node EXCEPT
        !.size = @ + SumSizes(val),
        !.children = [i \in 1..Len(@) |-> [@[i] EXCEPT !.children = <<>>]]
                     \o val]

\* node->size += child->size; node->children.push_back(child), for each
\* node of val; nothing for nullptr
Attach(node, val) ==
    [node EXCEPT !.size = @ + SumSizes(val), !.children = @ \o val]

\* where processBatch and the for statement go once the first entry of the
\* batch is dealt with: the next entry, the next batch, or the join loop
NextPc(f) ==
    IF Len(f.batch) > 1 THEN "batch"
    ELSE IF f.pos = At(f.path).limit /\ ~At(f.path).throws THEN "join"
    ELSE "iter"

EntryDone(f, val) ==
    [f EXCEPT !.node = Attach(@, val), !.batch = Tail(@), !.pc = NextPc(f)]

\* std::sort with the comparator of processDirectoryParallel
Before(a, b) ==
    IF a.size # b.size THEN a.size > b.size ELSE PathLess(a.path, b.path)

RECURSIVE InsertSorted(_, _)
InsertSorted(s, x) ==
    IF s = <<>> THEN <<x>>
    ELSE IF Before(x, s[1]) THEN <<x>> \o s
    ELSE <<s[1]>> \o InsertSorted(Tail(s), x)

RECURSIVE SortChildren(_)
SortChildren(s) ==
    IF s = <<>> THEN <<>>
    ELSE InsertSorted(SortChildren(SubSeq(s, 1, Len(s) - 1)), s[Len(s)])

\* lines 301-308: sort the children, clear them in root-only mode
FinalNode(f) ==
    [f.node EXCEPT
        !.children = IF f.rootOnly THEN <<>> ELSE SortChildren(@)]

SetTop(l, f) == [stacks EXCEPT ![l] = Append(Below(l), f)]

\* ----------------------------------------------------------------- actions
\* the caller's flag is varied on the plain filesystem
Init ==
    /\ fs \in FsSet
    /\ includeDirectorySize \in BOOLEAN
    /\ includeDirectorySize => fs = MkFs("file", "plain", "flat", -1)
    /\ m_maxThreads \in 1..MaxPool
    /\ m_activeThreads = 0
    /\ m_processedPaths = {}
    /\ m_entryPath = <<>>
    /\ used = FALSE
    /\ phase = "idle"
    /\ call = [path |-> <<>>, rootOnly |-> FALSE, fresh |-> FALSE]
    /\ stacks = EmptyMap
    /\ done = EmptyMap
    /\ hist = NoHist
    /\ cur = NoCall
    /\ prev = NoCall
    /\ series = <<>>
    /\ unit = NoUnit
    /\ api = NoApi

\* the walker at rest on the plain filesystem
WalkerAtRest ==
    /\ fs = MkFs("file", "plain", "flat", -1)
    /\ includeDirectorySize = FALSE
    /\ m_maxThreads = 1
    /\ m_activeThreads = 0
    /\ m_processedPaths = {}
    /\ m_entryPath = <<>>
    /\ used = FALSE
    /\ phase = "idle"
    /\ call = [path |-> <<>>, rootOnly |-> FALSE, fresh |-> FALSE]
    /\ stacks = EmptyMap
    /\ done = EmptyMap
    /\ hist = NoHist
    /\ cur = NoCall
    /\ prev = NoCall
    /\ series = <<>>

\* the initialiser without line 116: no floor of one
PoolSizeUnfloored(useParallelProcessing, maxThreads, hw) ==
    IF maxThreads > 0 THEN maxThreads ELSE hw

\* FZC::FZC: useParallelProcessing and maxThreads the arguments, hw what
\* hardware_concurrency reports; the initialiser and line 116 read
\* maxThreads and hw only
PoolSize(useParallelProcessing, maxThreads, hw) ==
    LET n == IF maxThreads > 0 THEN maxThreads ELSE hw
    IN  IF n < 1 THEN 1 ELSE n

\* a caller constructs a calculator and uses it from now on
Construct(useParallelProcessing, maxThreads, hw) ==
    /\ phase = "idle"
    /\ m_maxThreads' = PoolSize(useParallelProcessing, maxThreads, hw)
    /\ m_activeThreads' = 0
    /\ m_processedPaths' = {}
    /\ m_entryPath' = <<>>
    /\ used' = FALSE
    /\ UNCHANGED <<fs, includeDirectorySize, phase, call, stacks, done, hist,
                   cur, prev>>
    /\ UNCHANGED <<series, outside>>

\* what calculateFolderSizes does with the path before any directory walk:
\* "file" it goes to processFile, "dir" to processDirectoryParallel,
\* "none" the root node stays nullptr
Dispatch(p) ==
    IF isSymLink(p) THEN "file"
    ELSE IF is_regular_file(p) THEN "file"
    ELSE IF is_directory(p) THEN "dir"
    ELSE "none"

Completed(c, val) ==
    [valid |-> TRUE, path |-> c.path, rootOnly |-> c.rootOnly,
     fresh |-> c.fresh, root |-> val]

\* A caller compares a directory with its entries: it scans the data root
\* and then each entry of it, in readdir order, each scan on a fresh
\* calculator and with rootOnly off.  series holds the root sizes of the
\* scans made so far in that order; any other call starts over.
SeriesPaths ==
    LET e == fs.at[DataRoot].entries
    IN  <<DataRoot>> \o [i \in 1..Len(e) |-> DataRoot \o <<e[i]>>]

Continues(c, s) ==
    /\ c.fresh
    /\ ~c.rootOnly
    /\ Len(s) < Len(SeriesPaths)
    /\ c.path = SeriesPaths[Len(s) + 1]

SeriesAtCall(c) == IF Continues(c, series) THEN series ELSE <<>>

\* rootNode->size, -1 for a null root
RootSize(val) == IF val = <<>> THEN -1 ELSE val[1].size

SeriesAtReturn(c, s, val) ==
    IF Continues(c, s) THEN Append(s, RootSize(val)) ELSE s

\* calculateFolderSizes(path, rootOnly, includeDirectorySize) is called; a
\* path that is not a directory is answered at once
Call(p, ro) ==
    LET c == [path |-> p, rootOnly |-> ro, fresh |-> ~used] IN
    /\ phase = "idle"
    /\ used' = TRUE
    /\ call' = c
    /\ hist' = NoHist
    /\ prev' = IF cur.valid /\ cur.path = p THEN cur ELSE NoCall
    /\ IF Dispatch(p) = "dir"
       THEN /\ phase' = "running"
            /\ stacks' = (MainLane :> <<NewFrame(p, 0, ro)>>)
            /\ cur' = NoCall
            /\ series' = SeriesAtCall(c)
       ELSE /\ cur' = Completed(c, IF Dispatch(p) = "file"
                                   THEN <<processFile(p)>> ELSE <<>>)
            /\ series' = SeriesAtReturn(c, SeriesAtCall(c),
                                        IF Dispatch(p) = "file"
                                        THEN <<processFile(p)>> ELSE <<>>)
            /\ UNCHANGED <<phase, stacks>>
    /\ UNCHANGED <<fs, includeDirectorySize, m_maxThreads, m_activeThreads,
                   m_processedPaths, m_entryPath, done>>
    /\ UNCHANGED outside

\* Fulfil without the shared state: the value the lambda returns is lost
\* and the future never becomes ready
FulfilLost(d, t, val) == d

\* the lambda of task t returns val: its future becomes ready
Fulfil(d, t, val) == d @@ (t :> val)

\* A frame returns val; d is the futures' state it leaves behind.  Under an
\* inline call the caller in processBatch attaches the value (lines
\* 357-361); the main lane returns to calculateFolderSizes; a spawned
\* lambda decrements m_activeThreads and makes its future ready.
ReturnFrom(l, val, d) ==
    IF Len(stacks[l]) > 1
    THEN /\ stacks' = [stacks EXCEPT ![l] =
                Append(SubSeq(@, 1, Len(@) - 2),
                       EntryDone(stacks[l][Len(stacks[l]) - 1], val))]
         /\ done' = d
         /\ UNCHANGED <<m_activeThreads, phase, cur, prev, series>>
    ELSE IF l = MainLane
    THEN /\ stacks' = Without(stacks, {l})
         /\ done' = d
         /\ phase' = "idle"
         /\ cur' = Completed(call, val)
         /\ series' = SeriesAtReturn(call, series, val)
         /\ UNCHANGED <<m_activeThreads, prev>>
    ELSE /\ stacks' = Without(stacks, {l})
         /\ done' = Fulfil(d, l, val)
         /\ m_activeThreads' = m_activeThreads - 1
         /\ UNCHANGED <<phase, cur, prev, series>>

\* lines 257-271, the way processDirectoryParallel leaves its prologue:
\*   "empty"   returns the empty directory node
\*   "file"    returns processFile(path)
\*   "nothing" returns nullptr
\*   "skip"    shouldSkipDirectory answered true: the empty directory node
\*   "walk"    the path is inserted in m_processedPaths and iterated
EnterOutcome(p) ==
    IF ~hasAccessPermission(p) THEN "empty"
    ELSE IF isSymLink(p) THEN "file"
    ELSE IF AliasesRootChild(p) THEN "nothing"
    ELSE IF ~Exists(p) THEN "empty"
    ELSE IF shouldSkipDirectory(p) THEN "skip"
    ELSE IF p \in m_processedPaths THEN "nothing"
    ELSE "walk"

\* shouldSkipDirectory is called: no earlier return was taken
ReachesSkipPolicy(p) ==
    /\ hasAccessPermission(p)
    /\ ~isSymLink(p)
    /\ ~AliasesRootChild(p)
    /\ Exists(p)

Enter(l) ==
    /\ phase = "running"
    /\ l \in DOMAIN stacks
    /\ Top(l).pc = "enter"
    /\ LET f == Top(l)
           p == f.path
           out == EnterOutcome(p)
       IN  /\ m_entryPath' = IF ReachesSkipPolicy(p)
                             THEN EntryPathAfter(p) ELSE m_entryPath
           /\ hist' = [hist EXCEPT
                         !.skipped = IF out = "skip" THEN @ \cup {p} ELSE @,
                         !.walked = IF out = "walk" THEN @ \cup {p} ELSE @,
                         !.entered = @ \cup {p},
                         !.again = IF p \in hist.entered THEN @ \cup {p}
                                   ELSE @]
           /\ IF out = "walk"
              THEN /\ m_processedPaths' = m_processedPaths \cup {p}
                   /\ stacks' = SetTop(l, [f EXCEPT !.pc = "iter"])
                   /\ UNCHANGED <<m_activeThreads, phase, cur, prev, done,
                                  series>>
              ELSE /\ UNCHANGED m_processedPaths
                   /\ ReturnFrom(l, CASE out = "file" -> <<processFile(p)>>
                                      [] out = "nothing" -> <<>>
                                      [] OTHER -> <<f.node>>, done)
    /\ UNCHANGED <<fs, includeDirectorySize, m_maxThreads, used, call>>
    /\ UNCHANGED outside

\* the entries the for statement pushes before it next leaves the loop body:
\* up to a full batch, fewer when the iterator ends or raises
Yielded(f) ==
    LET a == At(f.path)
        n == Min(BatchSize, a.limit - f.pos)
    IN  [i \in 1..n |-> f.path \o <<a.entries[f.pos + i]>>]

\* lines 280-292 and 309-311: fill the batch; a full batch, or the last
\* partial one, goes to processBatch; an iterator error leaves through the
\* catch with the batch unprocessed
Iterate(l) ==
    /\ phase = "running"
    /\ l \in DOMAIN stacks
    /\ Top(l).pc = "iter"
    /\ LET f == Top(l)
           a == At(f.path)
           b == Yielded(f)
           g == [f EXCEPT !.pos = @ + Len(b), !.batch = b]
       IN  stacks' = SetTop(l,
               IF Len(b) = BatchSize THEN [g EXCEPT !.pc = "batch"]
               ELSE IF a.throws THEN [g EXCEPT !.pc = "unwind"]
               ELSE IF Len(b) > 0 THEN [g EXCEPT !.pc = "batch"]
               ELSE [g EXCEPT !.pc = "join"])
    /\ UNCHANGED <<fs, includeDirectorySize, m_maxThreads, m_activeThreads,
                   m_processedPaths, m_entryPath, used, phase, call, done,
                   hist, cur, prev>>
    /\ UNCHANGED <<series, outside>>

\* LeafFor without the continue of line 333: an unreadable entry gets its
\* zero-size node and is then classified again
LeafForNoContinue(p) ==
    (IF ~hasAccessPermission(p) THEN <<FileNode(p, 0, FALSE)>> ELSE <<>>)
    \o (IF isSymLink(p) \/ (getFileInfo(p)[1] > 0 /\ ~getFileInfo(p)[2])
        THEN <<FileNode(p, getFileInfo(p)[1], FALSE)>> ELSE <<>>)

\* lines 330-341 and 362-366, an entry that is not walked: the node
\* processBatch adds for it, or <<>> when it adds none
LeafFor(p) ==
    IF ~hasAccessPermission(p) THEN <<FileNode(p, 0, FALSE)>>
    ELSE IF isSymLink(p) THEN <<FileNode(p, getFileInfo(p)[1], FALSE)>>
    ELSE IF getFileInfo(p)[1] > 0 THEN <<FileNode(p, getFileInfo(p)[1], FALSE)>>
    ELSE <<>>

\* hist once the body of the loop of processBatch has run on entry p
Classified(p) ==
    [hist EXCEPT !.classified = @ \cup {p},
                 !.again = IF p \in hist.classified THEN @ \cup {p} ELSE @]

\* the entry goes on to the directory branches of processBatch
IsWalked(p) ==
    /\ hasAccessPermission(p)
    /\ ~isSymLink(p)
    /\ getFileInfo(p)[2]

\* processBatch on an entry that is unreadable, a link or a file
EntryLeaf(l) ==
    /\ phase = "running"
    /\ l \in DOMAIN stacks
    /\ Top(l).pc = "batch"
    /\ ~IsWalked(Top(l).batch[1])
    /\ stacks' = SetTop(l, EntryDone(Top(l), LeafFor(Top(l).batch[1])))
    /\ hist' = Classified(Top(l).batch[1])
    /\ UNCHANGED <<fs, includeDirectorySize, m_maxThreads, m_activeThreads,
                   m_processedPaths, m_entryPath, used, phase, call, done,
                   cur, prev>>
    /\ UNCHANGED <<series, outside>>

\* line 343 without the depth cap
MaySpawnAtAnyDepth(depth) == m_activeThreads < m_maxThreads

\* line 343: depth < m_maxDepthForParallelism && m_activeThreads < m_maxThreads
MaySpawn(depth) ==
    /\ depth < m_maxDepthForParallelism
    /\ m_activeThreads < m_maxThreads

\* line 357: the discovering lane calls processDirectoryParallel itself
CallInline(l) ==
    [stacks EXCEPT ![l] =
        Append(Append(Below(l), [Top(l) EXCEPT !.pc = "inline"]),
               NewFrame(Top(l).batch[1], Top(l).depth + 1, FALSE))]

\* processBatch on a subdirectory, the test outside the mutex
EntryDir(l) ==
    /\ phase = "running"
    /\ l \in DOMAIN stacks
    /\ Top(l).pc = "batch"
    /\ IsWalked(Top(l).batch[1])
    /\ stacks' = IF MaySpawn(Top(l).depth)
                 THEN SetTop(l, [Top(l) EXCEPT !.pc = "locked"])
                 ELSE CallInline(l)
    /\ hist' = Classified(Top(l).batch[1])
    /\ UNCHANGED <<fs, includeDirectorySize, m_maxThreads, m_activeThreads,
                   m_processedPaths, m_entryPath, used, phase, call, done,
                   cur, prev>>
    /\ UNCHANGED <<series, outside>>

\* line 345 without its test: whoever holds the mutex spawns
MaySpawnLockedUntested == TRUE

\* line 345: the test of m_activeThreads repeated under m_threadMutex
MaySpawnLocked == m_activeThreads < m_maxThreads

\* line 347: std::async cannot start a thread for the task of directory p
\* and throws std::system_error
AsyncThrows(p) == p \in fs.nothread

\* lines 344-354: under m_threadMutex the test is repeated; the task is
\* counted and spawned, or the entry falls through to the inline call.  When
\* std::async throws, the count of line 346 is already made and the catch
\* of line 367 goes on to the next entry.
EntryLocked(l) ==
    /\ phase = "running"
    /\ l \in DOMAIN stacks
    /\ Top(l).pc = "locked"
    /\ LET f == Top(l)
           p == f.batch[1]
       IN  IF MaySpawnLocked /\ AsyncThrows(p)
           THEN /\ m_activeThreads' = m_activeThreads + 1
                /\ stacks' = SetTop(l, EntryDone(f, <<>>))
           ELSE IF MaySpawnLocked
           THEN /\ m_activeThreads' = m_activeThreads + 1
                /\ stacks' =
                     SetTop(l, [EntryDone(f, <<>>) EXCEPT
                                   !.futures = Append(@, p)])
                     @@ (p :> <<NewFrame(p, f.depth + 1, FALSE)>>)
           ELSE /\ stacks' = CallInline(l)
                /\ UNCHANGED m_activeThreads
    /\ UNCHANGED <<fs, includeDirectorySize, m_maxThreads, m_processedPaths,
                   m_entryPath, used, phase, call, done, hist, cur, prev>>
    /\ UNCHANGED <<series, outside>>

\* lines 293-300: future.get() on the next future, once its task is done
Join(l) ==
    /\ phase = "running"
    /\ l \in DOMAIN stacks
    /\ Top(l).pc = "join"
    /\ Top(l).futures # <<>>
    /\ Top(l).futures[1] \in DOMAIN done
    /\ LET f == Top(l) IN
       /\ stacks' = SetTop(l, [f EXCEPT
                        !.node = Attach(@, done[f.futures[1]]),
                        !.futures = Tail(@)])
       /\ done' = Without(done, {f.futures[1]})
    /\ UNCHANGED <<fs, includeDirectorySize, m_maxThreads, m_activeThreads,
                   m_processedPaths, m_entryPath, used, phase, call, hist,
                   cur, prev>>
    /\ UNCHANGED <<series, outside>>

\* lines 301-313: every future is joined; sort, prune, return the node
Finalize(l) ==
    /\ phase = "running"
    /\ l \in DOMAIN stacks
    /\ Top(l).pc = "join"
    /\ Top(l).futures = <<>>
    /\ ReturnFrom(l, <<FinalNode(Top(l))>>, done)
    /\ UNCHANGED <<fs, includeDirectorySize, m_maxThreads, m_processedPaths,
                   m_entryPath, used, call, hist>>
    /\ UNCHANGED outside

\* lines 309-311: the catch returns the node as it is; the futures vector
\* is destroyed on the way out, which waits for every spawned task
Unwind(l) ==
    /\ phase = "running"
    /\ l \in DOMAIN stacks
    /\ Top(l).pc = "unwind"
    /\ \A i \in 1..Len(Top(l).futures) : Top(l).futures[i] \in DOMAIN done
    /\ ReturnFrom(l, <<Top(l).node>>,
                  Without(done, {Top(l).futures[i] :
                                    i \in 1..Len(Top(l).futures)}))
    /\ UNCHANGED <<fs, includeDirectorySize, m_maxThreads, m_processedPaths,
                   m_entryPath, used, call, hist>>
    /\ UNCHANGED outside

Lanes == {MainLane} \cup AllPaths

Next ==
    \/ \E b \in BOOLEAN, n \in -1..MaxPool, hw \in 0..MaxPool :
            Construct(b, n, hw)
    \/ \E p \in ScanRoots, ro \in BOOLEAN : Call(p, ro)
    \/ \E l \in Lanes : Enter(l)
    \/ \E l \in Lanes : Iterate(l)
    \/ \E l \in Lanes : EntryLeaf(l)
    \/ \E l \in Lanes : EntryDir(l)
    \/ \E l \in Lanes : EntryLocked(l)
    \/ \E l \in Lanes : Join(l)
    \/ \E l \in Lanes : Finalize(l)
    \/ \E l \in Lanes : Unwind(l)

Spec == Init /\ [][Next]_vars

\* ------------------------------------------------------------ result trees
RECURSIVE PathList(_)
\* the paths of a tree, one per node, parents first
PathList(n) ==
    LET RECURSIVE Over(_)
        Over(cs) == IF cs = <<>> THEN <<>>
                    ELSE PathList(cs[1]) \o Over(Tail(cs))
    IN  <<n.path>> \o Over(n.children)

RECURSIVE NodesOf(_)
\* the nodes of a tree
NodesOf(n) ==
    {n} \cup UNION {NodesOf(n.children[i]) : i \in 1..Len(n.children)}

\* the last call has returned
Returned == phase = "idle" /\ cur.valid

\* the nodes of the tree the last call returned
Tree == IF cur.root = <<>> THEN {} ELSE NodesOf(cur.root[1])

NoDup(s) == \A i, j \in 1..Len(s) : i # j => s[i] # s[j]

IsSorted(cs) == \A i \in 1..(Len(cs) - 1) : Before(cs[i], cs[i + 1])

\* the entries the iterator of directory d yields before it ends or raises
YieldedEntries(d) == {d \o <<At(d).entries[i]>> : i \in 1..At(d).limit}

\* -------------------------------------------------------------------- C1
\* C1: in a scan with root_only = false, every traversed directory node D
\* of the returned tree has D.size = (self-size of D if
\* include_directory_self_size is on, else 0) + the sum of its children's
\* sizes.
C1_SizeIsSelfPlusChildren ==
    (Returned /\ ~cur.rootOnly) =>
        \A d \in Tree :
            (d.isDirectory /\ d.path \in hist.walked) =>
                d.size = (IF includeDirectorySize THEN At(d.path).size ELSE 0)
                         + SumSizes(d.children)

\* -------------------------------------------------------------------- C2
\* C2: in every directory node of every returned tree, adjacent children
\* c1, c2 satisfy c1.size > c2.size, or c1.size = c2.size and
\* c1.path < c2.path, also after an error inside the directory.
C2_ChildrenSorted ==
    Returned => \A d \in Tree : IsSorted(d.children)

\* -------------------------------------------------------------------- C3
\* C3: no path occurs in more than one node of a returned tree.
C3_NoDuplicatePaths ==
    (Returned /\ cur.root # <<>>) => NoDup(PathList(cur.root[1]))

\* a full tree was returned: the root, its three entries (one of them
\* unreadable) and the entries of a subdirectory
C3_Witness ==
    /\ Returned
    /\ cur.root # <<>>
    /\ Len(PathList(cur.root[1])) >= 6
    /\ \E n \in Tree : ~hasAccessPermission(n.path)

\* -------------------------------------------------------------------- C4
\* C4: for a fixed filesystem and fixed flags the returned tree is the same
\* for every pool size and every interleaving: two calls on fresh
\* calculators, whatever their pool sizes, return the same tree.
C4_SameTreeForEveryPoolAndSchedule ==
    (Returned /\ prev.valid /\ cur.fresh /\ prev.fresh
        /\ cur.rootOnly = prev.rootOnly) => cur.root = prev.root

\* -------------------------------------------------------------------- C5
\* C5: calculateFolderSizes always returns a result with a non-null root
\* node, whatever the path is.
C5_RootNeverNull ==
    Returned => cur.root # <<>>

\* -------------------------------------------------------------------- C6
\* C6: every symbolic link of the scanned subtree, the scan root or a
\* directory entry, whatever the state of its target, is a leaf with
\* directory flag false whose size is the length of the link's target.
C6_LinkIsLeafOfLinkLength ==
    Returned =>
        \A n \in Tree :
            isSymLink(n.path) =>
                /\ n.children = <<>>
                /\ ~n.isDirectory
                /\ n.size = At(n.path).size

\* -------------------------------------------------------------------- C7
\* C7: for a directory root, the scan with root_only = true returns a root
\* with no children whose size is the root size of the scan with
\* root_only = false (stated for the scans that return a root at all).
C7_RootOnlyPrunesRootOnly ==
    (Returned /\ prev.valid /\ cur.fresh /\ prev.fresh
        /\ is_directory(cur.path) /\ cur.rootOnly /\ ~prev.rootOnly
        /\ cur.root # <<>> /\ prev.root # <<>>) =>
            /\ cur.root[1].children = <<>>
            /\ cur.root[1].size = prev.root[1].size

\* -------------------------------------------------------------------- C8
\* C8: two successive calls on the same unchanged subtree return identical
\* trees, for two fresh calculators and for two calls on one calculator.
C8_SecondCallSameTree ==
    (Returned /\ prev.valid /\ cur.rootOnly = prev.rootOnly
        /\ (~cur.fresh \/ (cur.fresh /\ prev.fresh))) => cur.root = prev.root

\* -------------------------------------------------------------------- C9
\* C9: an unreadable entry of a traversed directory appears in the tree at
\* its path with size 0 and no children, under the node of its directory,
\* whose size is the sum over the other entries.
C9_UnreadableEntryIsZeroLeaf ==
    (Returned /\ ~cur.rootOnly) =>
        \A d \in hist.walked : \A x \in YieldedEntries(d) :
            ~hasAccessPermission(x) =>
                \E dn \in Tree :
                    /\ dn.path = d
                    /\ \E i \in 1..Len(dn.children) :
                          /\ dn.children[i].path = x
                          /\ dn.children[i].size = 0
                          /\ dn.children[i].children = <<>>
                          /\ dn.size = SumSizes(dn.children)

\* ------------------------------------------------------------------- C10
\* the directories the skip policy answers true for: those it was asked
\* about and answered true, and the readable subdirectories a walked
\* directory yielded that a firmlink covers (the first rule of the policy,
\* which does not depend on the entry path)
SkipAnswersTrue ==
    hist.skipped
    \cup {x \in UNION {YieldedEntries(d) : d \in hist.walked} :
             IsWalked(x) /\ Exists(x) /\ isCoveredByFirmlink(x)}

\* C10: every directory for which the skip policy answers true is in the
\* tree as a directory node with size 0 and no children, and no path
\* strictly beneath it is in the tree.
C10_SkippedDirectoryIsEmptyNode ==
    (Returned /\ ~cur.rootOnly) =>
        \A p \in SkipAnswersTrue :
            /\ \E n \in Tree :
                  /\ n.path = p
                  /\ n.isDirectory
                  /\ n.size = 0
                  /\ n.children = <<>>
            /\ \A n \in Tree : ~IsStrictPrefix(p, n.path)

\* ------------------------------------------------------------------- C11
\* the frames of every lane
Frames == UNION {{stacks[l][i] : i \in 1..Len(stacks[l])} : l \in DOMAIN stacks}

\* C11: a traversed directory's node is seeded with self_size(path) before
\* any child is added when include_directory_self_size is true, and with 0
\* when it is false.
C11_SelfSizeSeeded ==
    \A f \in Frames :
        (f.pc = "iter" /\ f.pos = 0) =>
            f.node.size = IF includeDirectorySize THEN At(f.path).size ELSE 0

\* ------------------------------------------------------------------- C12
\* largest st_size and allocated size a probed path reports
MaxSize == 2

\* the filesystem types statfs reports for the entry; "" when it fails
EntryFsTypes == {"apfs", "hfs", "exfat", ""}

\* what lstat and getattrlist report for a probed path
StatResults ==
    {[kind |-> "none", size |-> 0, alloc |-> 0]}
    \cup [kind : {"file", "dir", "link"}, size : 0..MaxSize,
          alloc : 0..MaxSize]

\* getFileInfo is about to be called on a path
InfoInputs ==
    [fn : {"getFileInfo"}, st : StatResults, useAllocatedSize : BOOLEAN,
     entryFsType : EntryFsTypes, out : {<<>>}]

\* getFileInfo(path) returns
InfoUnit ==
    /\ unit.fn = "getFileInfo"
    /\ unit.out = <<>>
    /\ unit' = [unit EXCEPT
                  !.out = <<FileInfo(unit.st, unit.useAllocatedSize,
                                     unit.entryFsType)>>]
    /\ UNCHANGED <<walker, api>>

\* getFileInfo has returned for a regular file or a directory
InfoReturned ==
    /\ unit.fn = "getFileInfo"
    /\ unit.out # <<>>
    /\ unit.st.kind \in {"file", "dir"}

\* C12 as claimed: with use_allocated_size the probe reports
\* allocated_size(path), 0 when the query fails, on every filesystem type;
\* without it, the st_size of lstat.
C12_AllocatedOnEveryFsType ==
    InfoReturned =>
        unit.out[1][1] = IF unit.useAllocatedSize THEN unit.st.alloc
                         ELSE unit.st.size

\* C12, amended: with use_allocated_size the probe reports the allocated
\* size when it is positive; when it is 0 it reports 0 if the entry lies on
\* apfs or hfs and the st_size of lstat on every other type.  Without
\* use_allocated_size it reports st_size.  The mode does not change.
C12_AllocatedWithFallback ==
    /\ [](InfoReturned =>
            unit.out[1][1] =
                IF unit.useAllocatedSize
                   /\ (unit.st.alloc > 0
                       \/ unit.entryFsType \in {"apfs", "hfs"})
                THEN unit.st.alloc ELSE unit.st.size)
    /\ [][unit.fn = "getFileInfo" =>
            unit'.useAllocatedSize = unit.useAllocatedSize]_vars

\* the allocation query failed for a file of positive length outside apfs
\* and hfs, and the probe returned
C12_Witness ==
    /\ InfoReturned
    /\ unit.useAllocatedSize
    /\ unit.st.alloc = 0
    /\ unit.st.size > 0
    /\ unit.entryFsType = "exfat"

\* ------------------------------------------------------------------- C13
\* C13: when one directory is reachable in the scanned subtree by two
\* distinct paths (two hard links of one inode), at most one of the two
\* paths is in the returned tree.
C13_OneNodePerDirectoryInode ==
    Returned =>
        \A n1, n2 \in Tree :
            (is_directory(n1.path) /\ is_directory(n2.path)
                /\ At(n1.path).ino = At(n2.path).ino) => n1.path = n2.path

\* ------------------------------------------------------------------- C14
\* the directory and each of its entries have been scanned independently
\* and every scan returned a root
SeriesComplete ==
    /\ phase = "idle"
    /\ Len(series) = Len(SeriesPaths)
    /\ \A i \in 1..Len(series) : series[i] >= 0

RECURSIVE SumFrom(_, _)
SumFrom(s, i) == IF i > Len(s) THEN 0 ELSE s[i] + SumFrom(s, i + 1)

\* C14: with directory self-size off, the root size of the scan of a
\* directory equals the sum of the root sizes of the independent scans of
\* its entries, mount points and firmlink-covered entries included.
C14_RootSizeIsSumOfEntryScans ==
    (SeriesComplete /\ ~includeDirectorySize) =>
        series[1] = SumFrom(series, 2)

\* ------------------------------------------------------------------- C15
\* The C interface (fzc.cpp:442-501) on one scan result.  A node of the
\* tree is a number; 0 is the null pointer.  The heap holds for each node
\*   rc     the use count of the shared_ptr control block
\*   freed  how many times the FileNode was destroyed
\* A handle is a heap-allocated shared_ptr<FileNode>: the node it points to
\* and whether the handle is still allocated.  Handle 0 is the null
\* pointer a caller may pass as well.  last is the latest call on a
\* handle and what it returned: a field of a node, the default (null, 0,
\* false), or a value read through a null shared_ptr.
MaxHandles == 3

ApiNodes == 1..4

\* the trees a scan hands over: a null root, a leaf, a root with two
\* children one of which has a child
ApiTrees ==
    {[root |-> 0, nodes |-> {}, kids |-> [n \in ApiNodes |-> <<>>]],
     [root |-> 1, nodes |-> {1}, kids |-> [n \in ApiNodes |-> <<>>]],
     [root |-> 1, nodes |-> ApiNodes,
      kids |-> [n \in ApiNodes |->
                  CASE n = 1 -> <<2, 3>> [] n = 3 -> <<4>> [] OTHER -> <<>>]]}

\* the indices a caller passes to getChildNode
ApiIndices == -1..2

\* Share without the use count: the new handle is built from the raw
\* pointer and does not own the node
ShareRaw(h, n) == h

\* copying a shared_ptr that points to n into a new handle
Share(h, n) == IF n = 0 THEN h ELSE [h EXCEPT !.rc[n] = @ + 1]

RECURSIVE Drop(_, _, _)
\* destroying a shared_ptr that points to n: the last owner destroys the
\* node and with it the children vector
Drop(h, n, kids) ==
    LET RECURSIVE DropEach(_, _)
        DropEach(g, cs) ==
            IF cs = <<>> THEN g
            ELSE DropEach(Drop(g, cs[1], kids), Tail(cs))
    IN  IF n = 0 THEN h
        ELSE IF h.rc[n] # 1 THEN [h EXCEPT !.rc[n] = @ - 1]
        ELSE DropEach([h EXCEPT !.rc[n] = 0, !.freed[n] = @ + 1], kids[n])

\* the nodes reachable from n through children
RECURSIVE Beneath(_, _)
Beneath(n, kids) ==
    {n} \cup UNION {Beneath(kids[n][i], kids) : i \in 1..Len(kids[n])}

\* what a call returned: kind "data" with the node it was read from (for
\* getChildNode the child the new handle points to) and the number of its
\* children, kind "default", or kind "undefined"
Answer(kind, n, count) == [kind |-> kind, node |-> n, count |-> count]

NoApiCall == [fn |-> "none", k |-> 0, index |-> 0, out |-> Answer("default", 0, 0)]

\* what a dereference of a null shared_ptr can come to: the process ends, or
\* the call returns whatever it read, which may look like the default
NullDeref(fn, k, index) ==
    \/ api' = [api EXCEPT !.crashed = TRUE]
    \/ \E kind \in {"default", "undefined"} :
          api' = [api EXCEPT !.last = [fn |-> fn, k |-> k, index |-> index,
                                       out |-> Answer(kind, 0, 0)]]

ApiInit ==
    /\ WalkerAtRest
    /\ unit = NoUnit
    /\ \E t \in ApiTrees :
          api = [result |-> "none", tree |-> t, handles |-> <<>>,
                 heap |-> [rc |-> [n \in ApiNodes |-> 0],
                           freed |-> [n \in ApiNodes |-> 0]],
                 crashed |-> FALSE, last |-> NoApiCall]

\* calculateFolderSizes: the result owns the root, every node its children
ApiCalculate ==
    /\ api.result = "none"
    /\ api' = [api EXCEPT
                 !.result = "live",
                 !.heap.rc = [n \in ApiNodes |->
                                IF n \in api.tree.nodes THEN 1 ELSE 0]]
    /\ UNCHANGED <<walker, unit>>

\* getResultRootNode(result) on the result handle
GetResultRootNode ==
    /\ ~api.crashed
    /\ api.result = "live"
    /\ Len(api.handles) < MaxHandles
    /\ api' = [api EXCEPT
                 !.heap = Share(@, api.tree.root),
                 !.handles = Append(@, [node |-> api.tree.root,
                                        live |-> TRUE])]
    /\ UNCHANGED <<walker, unit>>

\* getNodePath, getNodeSize, isNodeDirectory and getChildrenCount
AccessorNames ==
    {"getNodePath", "getNodeSize", "isNodeDirectory", "getChildrenCount"}

\* fn(node) on the null pointer or on an allocated handle: the null pointer
\* gets the default, any other handle is dereferenced
NodeAccessor(fn, k) ==
    /\ ~api.crashed
    /\ api.result # "none"
    /\ k = 0 \/ (k \in 1..Len(api.handles) /\ api.handles[k].live)
    /\ IF k = 0
       THEN api' = [api EXCEPT !.last = [fn |-> fn, k |-> k, index |-> 0,
                                         out |-> Answer("default", 0, 0)]]
       ELSE LET n == api.handles[k].node IN
            IF n = 0 \/ api.heap.freed[n] > 0
            THEN NullDeref(fn, k, 0)
            ELSE api' = [api EXCEPT
                           !.last = [fn |-> fn, k |-> k, index |-> 0,
                                     out |-> Answer("data", n,
                                                Len(api.tree.kids[n]))]]
    /\ UNCHANGED <<walker, unit>>

\* getChildNode(node, index) on the null pointer or on an allocated handle
GetChildNode(k, index) ==
    /\ ~api.crashed
    /\ api.result # "none"
    /\ k = 0 \/ (k \in 1..Len(api.handles) /\ api.handles[k].live)
    /\ IF k = 0
       THEN api' = [api EXCEPT
                      !.last = [fn |-> "getChildNode", k |-> k,
                                index |-> index,
                                out |-> Answer("default", 0, 0)]]
       ELSE LET n == api.handles[k].node IN
            IF n = 0 \/ api.heap.freed[n] > 0
            THEN NullDeref("getChildNode", k, index)
            ELSE IF index < 0 \/ index >= Len(api.tree.kids[n])
            THEN api' = [api EXCEPT
                           !.last = [fn |-> "getChildNode", k |-> k,
                                     index |-> index,
                                     out |-> Answer("default", 0, 0)]]
            ELSE LET c == api.tree.kids[n][index + 1] IN
                 /\ Len(api.handles) < MaxHandles
                 /\ api' = [api EXCEPT
                              !.heap = Share(@, c),
                              !.handles = Append(@, [node |-> c,
                                                     live |-> TRUE]),
                              !.last = [fn |-> "getChildNode", k |-> k,
                                        index |-> index,
                                        out |-> Answer("data", c,
                                                   Len(api.tree.kids[c]))]]
    /\ UNCHANGED <<walker, unit>>

\* releaseFileNode(node) on an allocated handle
ReleaseFileNode(k) ==
    /\ ~api.crashed
    /\ k \in 1..Len(api.handles)
    /\ api.handles[k].live
    /\ api' = [api EXCEPT
                 !.heap = Drop(@, api.handles[k].node, api.tree.kids),
                 !.handles[k].live = FALSE]
    /\ UNCHANGED <<walker, unit>>

\* releaseResult(result)
ReleaseResult ==
    /\ ~api.crashed
    /\ api.result = "live"
    /\ api' = [api EXCEPT
                 !.heap = Drop(@, api.tree.root, api.tree.kids),
                 !.result = "released"]
    /\ UNCHANGED <<walker, unit>>

ApiNext ==
    \/ ApiCalculate
    \/ GetResultRootNode
    \/ \E fn \in AccessorNames, k \in 0..MaxHandles : NodeAccessor(fn, k)
    \/ \E k \in 0..MaxHandles, i \in ApiIndices : GetChildNode(k, i)
    \/ \E k \in 1..MaxHandles : ReleaseFileNode(k)
    \/ ReleaseResult

ApiSpec == ApiInit /\ [][ApiNext]_vars

\* the handles that are allocated and point to a node
LiveHandles ==
    {k \in 1..Len(api.handles) :
        api.handles[k].live /\ api.handles[k].node # 0}

\* C15: whatever the order of the releases, a node handle that is not
\* released keeps its node and the nodes beneath it readable, no node is
\* destroyed twice, and once the result and every handle are released each
\* node of the tree has been destroyed exactly once.
C15_HandlesReleasedIndependently ==
    api.result \in {"live", "released"} =>
        /\ \A k \in LiveHandles :
              \A n \in Beneath(api.handles[k].node, api.tree.kids) :
                  api.heap.freed[n] = 0
        /\ \A n \in ApiNodes : api.heap.freed[n] <= 1
        /\ (api.result = "released" /\ LiveHandles = {}
            /\ \A k \in 1..Len(api.handles) : ~api.handles[k].live) =>
              \A n \in api.tree.nodes : api.heap.freed[n] = 1

\* the result and the root's handle are released, the root is destroyed,
\* and a handle of a child is still allocated
C15_Witness ==
    /\ api.result = "released"
    /\ api.heap.freed[1] = 1
    /\ \E k \in LiveHandles : api.handles[k].node = 3

\* ------------------------------------------------------------------- C16
\* The command-line front-end (main.cpp).  A command line is a sequence of
\* words after the program name; the paths among them name entries of the
\* filesystem root that are not directories, so the scan main starts is
\* over in calculateFolderSizes itself.
MaxArgs == 3

Words == {"-h", "-t", "-s", "-r", "-j", "-x", "-1", "0", "2", "f", "x"}

\* arg[0] == '-'
Dashed == {"-h", "-t", "-s", "-r", "-j", "-x", "-1"}

\* the words std::stoi converts; on any other word it throws
Numbers == {"-1", "0", "2"}

stoi(w) == CASE w = "-1" -> -1 [] w = "0" -> 0 [] w = "2" -> 2

RECURSIVE SeqsUpTo(_, _)
SeqsUpTo(S, n) ==
    IF n = 0 THEN {<<>>}
    ELSE LET shorter == SeqsUpTo(S, n - 1)
         IN  shorter \cup {Append(s, w) : s \in shorter, w \in S}

\* main is entered: lines 71-75
MainInputs ==
    [fn : {"main"}, argv : SeqsUpTo(Words, MaxArgs), hw : 0..MaxPool,
     i : {1}, useParallelProcessing : {TRUE}, maxThreads : {0},
     timeOnly : {FALSE}, rootOnly : {FALSE}, directoryPath : {""},
     pc : {"start"}, status : {-1}, pool : {0}]

MainExit(u, code) == [u EXCEPT !.pc = "exited", !.status = code]

\* lines 65-68: no argument at all
MainStart ==
    /\ unit.fn = "main"
    /\ unit.pc = "start"
    /\ unit' = IF Len(unit.argv) < 1 THEN MainExit(unit, 1)
               ELSE [unit EXCEPT !.pc = "args"]
    /\ UNCHANGED <<walker, api>>

\* lines 77-123: one turn of the loop over the arguments
MainArg ==
    /\ unit.fn = "main"
    /\ unit.pc = "args"
    /\ unit.i <= Len(unit.argv)
    /\ LET arg == unit.argv[unit.i]
           next == [unit EXCEPT !.i = @ + 1]
       IN  unit' =
             IF arg = "-h" THEN MainExit(unit, 0)
             ELSE IF arg = "-t" THEN [next EXCEPT !.timeOnly = TRUE]
             ELSE IF arg = "-s"
                  THEN [next EXCEPT !.useParallelProcessing = FALSE]
             ELSE IF arg = "-r" THEN [next EXCEPT !.rootOnly = TRUE]
             ELSE IF arg = "-j"
                  THEN IF unit.i + 1 <= Len(unit.argv)
                       THEN LET val == unit.argv[unit.i + 1] IN
                            IF val \notin Numbers THEN MainExit(unit, 1)
                            ELSE IF stoi(val) < 0 THEN MainExit(unit, 1)
                            ELSE [unit EXCEPT !.i = @ + 2,
                                              !.maxThreads = stoi(val)]
                       ELSE MainExit(unit, 1)
             ELSE IF arg \in Dashed THEN MainExit(unit, 1)
             ELSE IF unit.directoryPath # "" THEN MainExit(unit, 1)
             ELSE [next EXCEPT !.directoryPath = arg]
    /\ UNCHANGED <<walker, api>>

\* what main may end with once it reads through a null root node (lines
\* 140-141): the behaviour is undefined
NullRootOutcomes == {0, 1, 139}

\* lines 125-146: the calculator is constructed, the path is scanned and
\* the result printed; the only return after the scan is return 0
MainRun ==
    /\ unit.fn = "main"
    /\ unit.pc = "args"
    /\ unit.i > Len(unit.argv)
    /\ IF unit.directoryPath = ""
       THEN unit' = MainExit(unit, 1)
       ELSE LET u == [unit EXCEPT !.pool =
                         PoolSize(unit.useParallelProcessing,
                                  unit.maxThreads, unit.hw)]
                p == <<unit.directoryPath>>
            IN  IF unit.timeOnly \/ Dispatch(p) # "none"
                THEN unit' = MainExit(u, 0)
                ELSE \E code \in NullRootOutcomes : unit' = MainExit(u, code)
    /\ UNCHANGED <<walker, api>>

\* C16: a calculator main constructs after --sequential has pool size one,
\* whatever --threads says, so that no two spawned tasks are in flight
C16_SequentialPoolIsOne ==
    (unit.fn = "main" /\ unit.pool > 0 /\ ~unit.useParallelProcessing)
        => unit.pool = 1

\* ------------------------------------------------------------------- C17
\* a lane takes its next step inside processDirectoryParallel
LaneStep ==
    \E l \in Lanes :
        \/ Enter(l)
        \/ Iterate(l)
        \/ EntryLeaf(l)
        \/ EntryDir(l)
        \/ EntryLocked(l)
        \/ Join(l)
        \/ Finalize(l)
        \/ Unwind(l)

\* the filesystems of the fair runs: the one where two lanes spawn at the
\* same time, one whose root iterator raises with tasks in flight, and one
\* where a task cannot be started
FairFs == {MkFs("twin", "plain", "nested", -1),
           MkFs("file", "plain", "nested", 2),
           MkFs("file", "plain", "nothread", -1)}

FairInit ==
    /\ Init
    /\ fs \in FairFs
    /\ ~includeDirectorySize

\* The scheduler keeps running the lanes: while some lane can take a step,
\* one is taken.  Callers are under no obligation to construct or to call.
FairSpec == FairInit /\ [][Next]_vars /\ WF_vars(LaneStep)

\* C17: every call of calculateFolderSizes returns, with every spawned
\* task at its end: no lane waits for ever on a mutex or in a join.
C17_ScanTerminates ==
    /\ (phase = "running") ~> (phase = "idle")
    /\ [](phase = "idle" => DOMAIN stacks = {})

\* a lane waits in future.get() for a task that is itself waiting for one
C17_Witness ==
    \E l \in DOMAIN stacks, t \in DOMAIN stacks :
        /\ l # t
        /\ Top(l).pc = "join"
        /\ Top(l).futures # <<>>
        /\ Top(l).futures[1] = t
        /\ Top(t).pc = "join"
        /\ Top(t).futures # <<>>
        /\ Top(t).futures[1] \notin DOMAIN done

\* ------------------------------------------------------------------- C18
\* C18: every regular-file entry of a directory that was traversed to the
\* end has a leaf at its path among the children of the directory's node,
\* of size 0 when its probe fails or reports 0.
C18_EveryFileEntryHasLeaf ==
    (Returned /\ ~cur.rootOnly) =>
        \A d \in hist.walked : \A x \in YieldedEntries(d) :
            (is_regular_file(x) /\ ~At(d).throws) =>
                \A dn \in Tree :
                    dn.path = d =>
                        \E i \in 1..Len(dn.children) :
                            /\ dn.children[i].path = x
                            /\ dn.children[i].children = <<>>
                            /\ getFileInfo(x)[1] = 0 =>
                                  dn.children[i].size = 0

\* ------------------------------------------------------------------- C19
\* main left the loop over the arguments at --help
LeftAtHelp ==
    /\ unit.i <= Len(unit.argv)
    /\ unit.argv[unit.i] = "-h"

\* C19: main exits with 0 at --help and after the scan of a path that can
\* be scanned, and with 1 at every usage error and after the scan of a
\* path that cannot be scanned
C19_ExitCodes ==
    (unit.fn = "main" /\ unit.pc = "exited") =>
        unit.status =
            IF unit.pool = 0 THEN (IF LeftAtHelp THEN 0 ELSE 1)
            ELSE IF Dispatch(<<unit.directoryPath>>) = "none" THEN 1
            ELSE 0

\* ------------------------------------------------------------------- C20
\* the spawned tasks whose lambda has not yet counted itself out
InFlight == DOMAIN stacks \ {MainLane}

\* C20: at every point of a scan m_activeThreads lies between 0 and
\* m_maxThreads and counts every spawned task in flight, whatever the
\* interleaving of spawns and completions.
C20_ActiveWithinPool ==
    /\ m_activeThreads >= 0
    /\ m_activeThreads <= m_maxThreads
    /\ Cardinality(InFlight) <= m_activeThreads

\* two lanes passed the test of line 343 with one place left: one of them
\* took it and the other now holds the mutex with the pool full
C20_Witness ==
    /\ m_maxThreads >= 2
    /\ m_activeThreads = m_maxThreads
    /\ \E l \in DOMAIN stacks : Top(l).pc = "locked"

\* ------------------------------------------------------------------- C21
\* C21: m_activeThreads is at every moment the number of spawned tasks
\* that have not completed, one count for each; when calculateFolderSizes
\* has returned it is 0 and no lane is left.
C21_CounterBalanced ==
    /\ m_activeThreads = Cardinality(InFlight)
    /\ phase = "idle" => (m_activeThreads = 0 /\ DOMAIN stacks = {})

\* ------------------------------------------------------------------- C22
\* C22: depth is 0 at the scan root and one more at each directory level,
\* on the spawned and on the inline path; and no task is spawned from a
\* directory at depth m_maxDepthForParallelism or deeper, so the first
\* frame of a spawned lane is never deeper than the cap.
C22_SpawnOnlyBelowDepthCap ==
    /\ \A f \in Frames :
          /\ IsPrefix(call.path, f.path)
          /\ f.depth = Len(f.path) - Len(call.path)
    /\ \A t \in InFlight : stacks[t][1].depth <= m_maxDepthForParallelism

\* the lane that found a subdirectory in a directory at the cap has called
\* processDirectoryParallel itself while the pool has a place left
C22_Witness ==
    \E l \in DOMAIN stacks :
        /\ Len(stacks[l]) >= 2
        /\ Top(l).pc = "enter"
        /\ Top(l).depth = m_maxDepthForParallelism + 1
        /\ m_activeThreads < m_maxThreads

\* ------------------------------------------------------------------- C23
\* the next step of lane l evaluates m_processedPaths.empty() at line 221:
\* shouldSkipDirectory is reached and the firmlink rule of line 220 does
\* not return first.  No lock is held there.
ReadsVisitedUnlocked(l) ==
    /\ Top(l).pc = "enter"
    /\ ReachesSkipPolicy(Top(l).path)
    /\ ~isCoveredByFirmlink(Top(l).path)

\* the next step of lane l inserts its path at line 270, under
\* m_pathMapMutex
InsertsVisited(l) ==
    /\ Top(l).pc = "enter"
    /\ EnterOutcome(Top(l).path) = "walk"

\* C23: the visited-paths set is only ever accessed under its lock, so no
\* lane is about to read it unlocked while another is about to insert
\* into it; and the check-and-insert lets one activation at most iterate
\* a path.
C23_VisitedPathsUnderLock ==
    /\ \A l, t \in DOMAIN stacks :
          l # t => ~(ReadsVisitedUnlocked(l) /\ InsertsVisited(t))
    /\ \A f, g \in Frames :
          (f.pc # "enter" /\ g.pc # "enter" /\ f.path = g.path) => f = g

\* ------------------------------------------------------------------- C24
\* C24: once the call has returned, every entry an iterated directory
\* yielded has been through the loop body of processBatch exactly once, and
\* every subdirectory among them was handed to processDirectoryParallel
\* exactly once, by a spawned task or inline.
C24_EveryEntryOnce ==
    Returned =>
        \A d \in hist.walked : \A x \in YieldedEntries(d) :
            /\ x \in hist.classified
            /\ x \notin hist.again
            /\ IsWalked(x) => x \in hist.entered

\* ------------------------------------------------------------------- C25
\* the nodes attached to the node of frame f
Attached(f) == {f.node.children[i] : i \in 1..Len(f.node.children)}

\* the activations of lane l that a step leaves on its stack
Kept(l) ==
    {i \in 1..Len(stacks[l]) :
        /\ i <= Len(stacks'[l])
        /\ stacks'[l][i].path = stacks[l][i].path}

\* C25: a step writes the nodes of one lane at most; a node that is
\* attached to its parent stays attached as it is, whatever any lane does;
\* and a task whose future is ready has no lane left, so that the parent,
\* which attaches the future's value in its join, reads the node only after
\* the task has completed.
C25_NodesOwnedByOneLane ==
    /\ [](DOMAIN done \cap DOMAIN stacks = {})
    /\ [][/\ \A l, t \in DOMAIN stacks \cap DOMAIN stacks' :
                l # t => (stacks'[l] = stacks[l] \/ stacks'[t] = stacks[t])
          /\ \A l \in DOMAIN stacks \cap DOMAIN stacks' : \A i \in Kept(l) :
                /\ Attached(stacks[l][i]) \subseteq Attached(stacks'[l][i])
                /\ Len(stacks'[l][i].futures) < Len(stacks[l][i].futures) =>
                      /\ stacks[l][i].futures[1] \in DOMAIN done
                      /\ stacks[l][i].futures[1] \notin DOMAIN stacks
                      /\ stacks'[l][i].node =
                            Attach(stacks[l][i].node,
                                   done[stacks[l][i].futures[1]])]_vars

\* a lane waits in its join for a running task while a directory node
\* with children of its own is already attached to its node
C25_Witness ==
    \E l \in DOMAIN stacks :
        /\ Top(l).pc = "join"
        /\ \E i \in 1..Len(Top(l).node.children) :
              /\ Top(l).node.children[i].isDirectory
              /\ Top(l).node.children[i].children # <<>>
        /\ Top(l).futures # <<>>
        /\ Top(l).futures[1] \in DOMAIN stacks

\* ------------------------------------------------------------------- C26
\* Path strings as shouldSkipDirectory compares them: sequences of
\* characters, "/" among them.
\* the largest device id a stat call reports
MaxDev == 2

\* the string of the absolute path with the given entry names
RECURSIVE PathText(_)
PathText(c) ==
    IF c = <<>> THEN <<>> ELSE <<"/">> \o c[1] \o PathText(Tail(c))

AbsText(c) == IF c = <<>> THEN <<"/">> ELSE PathText(c)

\* how many characters the string has before its first "/"
RECURSIVE NameLen(_)
NameLen(s) ==
    IF s = <<>> THEN 0
    ELSE IF s[1] = "/" THEN 0
    ELSE 1 + NameLen(Tail(s))

\* the entry names a path string denotes, empty for the root
RECURSIVE Components(_)
Components(s) ==
    IF s = <<>> THEN <<>>
    ELSE IF s[1] = "/" THEN Components(Tail(s))
    ELSE <<SubSeq(s, 1, NameLen(s))>>
         \o Components(SubSeq(s, NameLen(s) + 1, Len(s)))

startsWith(str, prefix) ==
    Len(str) >= Len(prefix) /\ SubSeq(str, 1, Len(prefix)) = prefix

\* isSubPathOfMountPoint over a given mount table
SubPathOfMountTable(path, mounts) ==
    /\ path # <<>>
    /\ \E mount \in mounts :
          /\ Len(path) > Len(mount)
          /\ SubSeq(path, 1, Len(mount)) = mount
          /\ path[Len(mount) + 1] = "/"

\* the directories a scan evaluates, as the iterator spells them: /a, /b,
\* /ab, /a/a, /a/b
SkipPaths ==
    LET Names == {<<"a">>, <<"b">>, <<"a", "b">>}
    IN  {AbsText(c) : c \in {<<n>> : n \in Names}
                            \cup {<<<<"a">>, n>> : n \in {<<"a">>, <<"b">>}}}

\* the scan roots as a caller spells them: the root directory, a directory,
\* a directory with a trailing slash
SkipRoots ==
    {AbsText(<<>>), AbsText(<<<<"a">>>>), AbsText(<<<<"a">>>>) \o <<"/">>,
     AbsText(<<<<"b">>>>)}

\* shouldSkipDirectory is about to be called: on the scan root with nothing
\* visited yet, or on a directory met later, when m_entryPath is an earlier
\* scan root.  The mount tables are those getMountPoints builds: "/" is
\* never in one.
SkipInputs ==
    {u \in [fn : {"shouldSkipDirectory"}, path : SkipPaths \cup SkipRoots,
            m_entryPath : SkipRoots \cup {<<>>}, first : BOOLEAN,
            mounts : SUBSET {AbsText(<<<<"a">>>>), AbsText(<<<<"b">>>>),
                             AbsText(<<<<"a">>, <<"b">>>>)},
            covered : BOOLEAN,
            entryDev : 1..MaxDev, pathDev : 1..MaxDev, out : {<<>>}] :
        /\ u.first <=> u.m_entryPath = <<>>
        /\ ~u.first => u.path \in SkipPaths
        /\ LET e == IF u.first THEN u.path ELSE u.m_entryPath
           IN  Components(e) = Components(u.path) => u.entryDev = u.pathDev}

\* shouldSkipDirectory(path) returns
SkipUnit ==
    /\ unit.fn = "shouldSkipDirectory"
    /\ unit.out = <<>>
    /\ LET e == IF unit.covered THEN unit.m_entryPath
                ELSE IF unit.first THEN unit.path
                ELSE unit.m_entryPath
       IN  unit' = [unit EXCEPT
                      !.m_entryPath = e,
                      !.out = <<SkipDecision(
                                  unit.covered,
                                  unit.path \in unit.mounts,
                                  unit.path = e,
                                  startsWith(unit.path, e \o <<"/">>),
                                  SubPathOfMountTable(unit.path, unit.mounts),
                                  unit.entryDev, unit.pathDev,
                                  e \in unit.mounts)>>]
    /\ UNCHANGED <<walker, api>>

\* C26: whatever the boundary predicates are, shouldSkipDirectory returns
\* what the ordered policy gives: skip a path covered by a firmlink; else
\* skip a mount point iff it lies strictly beneath the entry path; else,
\* under some mount point, keep the path when it is on the device of the
\* entry path, keep it when it is beneath an entry path that is itself a
\* mount point, skip it otherwise; else keep it.  The policy is read over
\* the directories the strings name.
C26_SkipFollowsPolicy ==
    LET SameDir(s, t) == Components(s) = Components(t)
        Under(s, t) == IsStrictPrefix(Components(t), Components(s))
        path == unit.path
        E == unit.m_entryPath
        mounts == unit.mounts
    IN  (unit.fn = "shouldSkipDirectory" /\ unit.out # <<>>) =>
            unit.out[1] =
                IF unit.covered THEN TRUE
                ELSE IF \E m \in mounts : SameDir(path, m) THEN Under(path, E)
                ELSE IF \E m \in mounts : Under(path, m)
                     THEN IF unit.pathDev = unit.entryDev THEN FALSE
                          ELSE ~(Under(path, E)
                                 /\ \E m \in mounts : SameDir(E, m))
                ELSE FALSE

\* ------------------------------------------------------------------- C27
\* C27: the entry path is always descended: whatever directory is given as
\* the scan root (a mount point, a path under a data root, any other), the
\* call returns a root node, the root directory was iterated, and, in a
\* scan with root_only off, every readable entry of it is a child of the
\* root node.
C27_EntryPathDescended ==
    LET d == cur.path
        ReadableEntries ==
            {d \o <<At(d).entries[i]>> : i \in 1..Len(At(d).entries)}
            \cap {x \in AllPaths : Exists(x) /\ hasAccessPermission(x)}
    IN  (Returned /\ Dispatch(d) = "dir" /\ hasAccessPermission(d)) =>
            /\ cur.root # <<>>
            /\ d \in hist.walked
            /\ ~cur.rootOnly =>
                  \A x \in ReadableEntries :
                      \E i \in 1..Len(cur.root[1].children) :
                          cur.root[1].children[i].path = x

\* ------------------------------------------------------------------- C28
\* C28: during every scan the entry path the skip policy uses is the path
\* given to that scan's calculateFolderSizes call: recorded by the first
\* evaluation of the scan, not overwritten later or by a worker lane, and
\* never the entry path of an earlier scan on the same calculator.  Stated
\* from the moment the policy has let a directory of the running scan
\* through, the mount rules, which read m_entryPath, evaluated.
C28_EntryPathIsScanRoot ==
    (phase = "running" /\ hist.walked # {}) => m_entryPath = call.path

\* ------------------------------------------------------------------- C29
\* the most entry names a probed path has below its first part
MaxTail == 2

\* std::replace(p.begin(), p.end(), '\\', '/')
Replaced(p) == [i \in 1..Len(p) |-> IF p[i] = "\\" THEN "/" ELSE p[i]]

\* while (p.length() > 1 && p.back() == '/') p.pop_back()
RECURSIVE Stripped(_)
Stripped(p) ==
    IF Len(p) > 1 /\ p[Len(p)] = "/"
    THEN Stripped(SubSeq(p, 1, Len(p) - 1))
    ELSE p

normalizePath(path) == Stripped(Replaced(path))

\* the string of a path given by its components, one word per component
TextOf(p) == AbsText([i \in 1..Len(p) |-> <<p[i]>>])

\* the strings in m_dataRoots
DataRootTexts == {TextOf(r) : r \in m_dataRoots}

\* the strings stored as values in m_firmlinkMap: relative, no leading slash
FirmlinkValueTexts == {Tail(TextOf(kv.value)) : kv \in m_firmlinkMap}

\* the test of line 431 without the component boundary: any relative path
\* that begins like the value matches
MatchesValueByPrefix(rel, value) == startsWith(rel, value)

\* rel == value || startsWith(rel, value + "/")
MatchesValue(rel, value) == rel = value \/ startsWith(rel, value \o <<"/">>)

\* isCoveredByFirmlink on the string of a path
CoveredText(path) ==
    LET normPath == normalizePath(path) IN
    \E root \in DataRootTexts :
        LET normRoot == normalizePath(root)
            cut == SubSeq(normPath, Len(normRoot) + 1, Len(normPath))
            rel == IF cut = <<>> THEN <<"/">>
                   ELSE IF cut[1] # "/" THEN <<"/">> \o cut
                   ELSE cut
        IN  /\ ~(normPath = normRoot
                 \/ ~startsWith(normPath, normRoot \o <<"/">>))
            /\ \E v \in FirmlinkValueTexts :
                  LET value == IF v = <<>> THEN <<"/">>
                               ELSE IF v[1] # "/" THEN <<"/">> \o v
                               ELSE v
                  IN  MatchesValue(rel, value)

\* the strings isCoveredByFirmlink is probed with: a first part, up to
\* MaxTail further names, and no, one or two trailing slashes.
\*   CoverHeads  the first parts: the root directory, the data root, its
\*               parent, a sibling that begins like it, a sibling with a
\*               backslash
\*   CoverNames  the names: firmlink values, names that only begin like
\*               one, names with a backslash in them, and the empty name,
\*               which spells two slashes in a row
CoverPaths ==
    LET CoverHeads ==
            {<<>>,
             <<<<"System">>, <<"Volumes">>>>,
             <<<<"System">>, <<"Volumes">>, <<"Data">>>>,
             <<<<"System">>, <<"Volumes">>, <<"Data", "X">>>>,
             <<<<"System">>, <<"Volumes">>, <<"Data", "\\", "Users">>>>}
        CoverNames ==
            {<<"Users">>, <<"Users", "X">>, <<"X">>, <<"usr">>, <<"local">>,
             <<"local", "X">>, <<"Users", "\\", "X">>,
             <<"usr", "\\", "local">>, <<>>}
    IN  {AbsText(h \o t) \o s :
            h \in CoverHeads,
            t \in UNION {[1..n -> CoverNames] : n \in 0..MaxTail},
            s \in {<<>>, <<"/">>, <<"/", "/">>}}

\* isCoveredByFirmlink is about to be called, on a probed string or on an
\* installed path of the firmlink map put under a data root
CoverInputs ==
    [fn : {"isCoveredByFirmlink"},
     path : CoverPaths
            \cup {TextOf(r \o kv.key) : r \in m_dataRoots,
                                        kv \in m_firmlinkMap},
     out : {<<>>}]

\* isCoveredByFirmlink(path) returns
CoverUnit ==
    /\ unit.fn = "isCoveredByFirmlink"
    /\ unit.out = <<>>
    /\ unit' = [unit EXCEPT !.out = <<CoveredText(unit.path)>>]
    /\ UNCHANGED <<walker, api>>

\* C29 as claimed: isCoveredByFirmlink(path) is true exactly when, trailing
\* slashes removed, the path lies strictly under some data root and what
\* follows the data root equals a firmlink value or descends into it at a
\* component boundary.
C29_CoveredExactly ==
    LET c == Components(Stripped(unit.path))
    IN  (unit.fn = "isCoveredByFirmlink" /\ unit.out # <<>>) =>
            (unit.out[1] <=>
                \E r \in DataRootTexts, v \in FirmlinkValueTexts :
                    /\ IsStrictPrefix(Components(r), c)
                    /\ IsPrefix(Components(v),
                                SubSeq(c, Len(Components(r)) + 1, Len(c))))

\* C29, amended: isCoveredByFirmlink(path) is true exactly when, every
\* backslash replaced by a slash and the trailing slashes then removed, the
\* path is a data root followed by a slash and a firmlink value, or begins
\* with these followed by a slash: the data root itself, paths outside
\* every data root and names that only begin like a firmlink value are not
\* covered, a name with a backslash in it counts as two names; the call
\* leaves its argument as it was.
C29_CoveredAfterNormalizing ==
    /\ [](LET s == Stripped(Replaced(unit.path))
          IN  (unit.fn = "isCoveredByFirmlink" /\ unit.out # <<>>) =>
                  (unit.out[1] <=>
                      \E r \in DataRootTexts, v \in FirmlinkValueTexts :
                          \/ s = r \o <<"/">> \o v
                          \/ IsPrefix(r \o <<"/">> \o v \o <<"/">>, s)))
    /\ [][unit.fn = "isCoveredByFirmlink" => unit'.path = unit.path]_vars

\* the function has answered true for a path spelled with trailing slashes
\* that descends into a firmlink value
C29_Witness ==
    /\ unit.fn = "isCoveredByFirmlink"
    /\ unit.out = <<TRUE>>
    /\ unit.path # Stripped(unit.path)
    /\ Len(Components(unit.path)) = 5
    /\ Components(unit.path)[4] = <<"Users">>

\* ------------------------------------------------------------------- C30
\* C30: the default firmlink table is consistent: the value stored for
\* every installed path K of the map is K without its leading slash, and
\* isCoveredByFirmlink answers true for R + K, whatever data root R is.
C30_FirmlinkTableConsistent ==
    (unit.fn = "isCoveredByFirmlink" /\ unit.out # <<>>) =>
        \A r \in m_dataRoots, kv \in m_firmlinkMap :
            unit.path = TextOf(r \o kv.key) =>
                /\ Tail(TextOf(kv.value)) = Tail(TextOf(kv.key))
                /\ unit.out[1]

\* ------------------------------------------------------------------- C31
\* the most entries getmntinfo reports
MaxMounts == 2

\* what getmntinfo reports for one mount: f_mntonname, the MNT_LOCAL and
\* MNT_REMOVABLE bits of f_flags, f_fstypename
MountEntries ==
    [path : {AbsText(<<>>), AbsText(<<<<"a">>>>),
             AbsText(<<<<"a">>, <<"b">>>>)},
     local : BOOLEAN, removable : BOOLEAN,
     fstype : {<<"a", "p", "f", "s">>, <<"a", "p", "f", "s", "x">>,
               <<"h", "f", "s">>}]

\* the loop of getMountPoints without the test of lines 166-168: every
\* mount but "/" is inserted
MountPointsUnfiltered(table) ==
    {table[i].path : i \in {j \in 1..Len(table) : table[j].path # <<"/">>}}

\* the loop of getMountPoints over the entries of the table; strncmp
\* compares the first four characters of the type name
MountPointsOf(table) ==
    {table[i].path :
        i \in {j \in 1..Len(table) :
                  /\ table[j].path # <<"/">>
                  /\ \/ ~table[j].local
                     \/ table[j].removable
                     \/ ~startsWith(table[j].fstype, <<"a", "p", "f", "s">>)}}

\* the constructor is about to run on a mount table: none when getmntinfo
\* fails
MountInputs ==
    [fn : {"getMountPoints"},
     table : UNION {[1..n -> MountEntries] : n \in 0..MaxMounts},
     out : {<<>>}]

\* the constructor builds m_mountPoints; isMountPoint and
\* isSubPathOfMountPoint then answer for every probed path
MountUnit ==
    /\ unit.fn = "getMountPoints"
    /\ unit.out = <<>>
    /\ LET set == MountPointsOf(unit.table)
       IN  unit' = [unit EXCEPT !.out =
                      <<[m_mountPoints |-> set,
                         isMountPoint |->
                            [p \in SkipPaths \cup SkipRoots |-> p \in set],
                         isSubPathOfMountPoint |->
                            [p \in SkipPaths \cup SkipRoots |->
                                SubPathOfMountTable(p, set)]]>>]
    /\ UNCHANGED <<walker, api>>

C32_IteratorErrorKeepsEntries ==
    LET GetsNode(x) ==
            \/ ~hasAccessPermission(x)
            \/ isSymLink(x)
            \/ IsWalked(x) /\ ~AliasesRootChild(x)
            \/ ~IsWalked(x) /\ getFileInfo(x)[1] > 0
    IN  (Returned /\ ~cur.rootOnly /\ cur.fresh) =>
            \A d \in hist.walked :
                At(d).throws =>
                    \E dn \in Tree :
                        /\ dn.path = d
                        /\ dn.size = SumSizes(dn.children)
                        /\ \A x \in YieldedEntries(d) :
                              GetsNode(x) =>
                                  \E i \in 1..Len(dn.children) :
                                      dn.children[i].path = x

\* ------------------------------------------------------------------- C33
\* C33: an exception raised while one entry is processed, or inside one
\* spawned task, stays with that entry: the scan returns a root, the other
\* entries of the directory are processed and joined, and the failing
\* entry is in the tree as a node of size 0 at its path.  The entry that
\* fails is the subdirectory whose std::async call throws: it went through
\* processBatch and processDirectoryParallel was never entered for it.
C33_EntryErrorLeavesZeroLeaf ==
    (Returned /\ ~cur.rootOnly /\ cur.fresh) =>
        /\ (Dispatch(cur.path) = "dir" /\ ~AliasesRootChild(cur.path)) =>
              cur.root # <<>>
        /\ \A d \in hist.walked : \A x \in YieldedEntries(d) :
              (~At(d).throws /\ x \in fs.nothread /\ x \in hist.classified
                  /\ x \notin hist.entered) =>
                  \E dn \in Tree :
                      /\ dn.path = d
                      /\ \E i \in 1..Len(dn.children) :
                            /\ dn.children[i].path = x
                            /\ dn.children[i].size = 0
                            /\ dn.children[i].children = <<>>

\* ------------------------------------------------------------------- C34
\* C34: a subdirectory is suppressed by the alias rule exactly when a path
\* /<basename> exists with the inode of the subdirectory and the skip
\* policy does not answer true for it: it then has no node under its
\* parent; a subdirectory that is both skipped and an alias is kept as an
\* empty node, the skip policy being evaluated first.
C34_AliasAfterSkipPolicy ==
    LET Alias(x) ==
            /\ Exists(<<x[Len(x)]>>)
            /\ is_hard_link(x, <<x[Len(x)]>>)
    IN  (Returned /\ ~cur.rootOnly /\ cur.fresh) =>
            \A dn \in Tree :
                (dn.path \in hist.walked /\ ~At(dn.path).throws) =>
                    \A x \in YieldedEntries(dn.path) :
                        (IsWalked(x) /\ x \notin fs.nothread) =>
                            /\ (\E i \in 1..Len(dn.children) :
                                    dn.children[i].path = x)
                                 <=> ~(Alias(x) /\ ~shouldSkipDirectory(x))
                            /\ (Alias(x) /\ shouldSkipDirectory(x)) =>
                                  \E i \in 1..Len(dn.children) :
                                      /\ dn.children[i].path = x
                                      /\ dn.children[i].isDirectory
                                      /\ dn.children[i].size = 0
                                      /\ dn.children[i].children = <<>>

\* ------------------------------------------------------------------- C35
\* the constructor is about to run: maxThreads positive, zero or negative,
\* hw what hardware_concurrency reports, 0 when it cannot tell
PoolInputs ==
    [fn : {"FZC"}, useParallelProcessing : BOOLEAN,
     maxThreads : (0 - MaxPool)..MaxPool, hw : 0..MaxPool, out : {<<>>}]

\* FZC::FZC has set m_maxThreads
PoolUnit ==
    /\ unit.fn = "FZC"
    /\ unit.out = <<>>
    /\ unit' = [unit EXCEPT
                  !.out = <<PoolSize(unit.useParallelProcessing,
                                     unit.maxThreads, unit.hw)>>]
    /\ UNCHANGED <<walker, api>>

\* C35: for every max_threads argument and every reported hardware
\* parallelism the pool size is at least 1: max_threads when that is
\* positive, else the hardware parallelism, 1 when that is 0; the
\* constructor leaves its arguments as they were.
C35_PoolSizeAtLeastOne ==
    /\ []((unit.fn = "FZC" /\ unit.out # <<>>) =>
            /\ unit.out[1] >= 1
            /\ unit.maxThreads > 0 => unit.out[1] = unit.maxThreads
            /\ (unit.maxThreads <= 0 /\ unit.hw >= 1) =>
                  unit.out[1] = unit.hw
            /\ (unit.maxThreads <= 0 /\ unit.hw = 0) => unit.out[1] = 1)
    /\ [][unit.fn = "FZC" => /\ unit'.maxThreads = unit.maxThreads
                             /\ unit'.hw = unit.hw]_vars

\* the constructor was given a negative max_threads on a machine whose
\* hardware parallelism is not known, and the pool size is 1
C35_Witness ==
    /\ unit.fn = "FZC"
    /\ unit.maxThreads < 0
    /\ unit.hw = 0
    /\ unit.out = <<1>>

\* ------------------------------------------------------------------- C36
\* C36: no accessor of the C interface dereferences a missing node: on the
\* null pointer, on a handle of a node and on the root handle of a result
\* whose root node is absent, getNodePath, getNodeSize, isNodeDirectory,
\* getChildrenCount and getChildNode return the node's data or the default,
\* and getChildNode returns null for an index below 0 or not below the
\* number of children.
C36_AccessorsNeverDereferenceMissingNode ==
    /\ ~api.crashed
    /\ api.last.fn # "none" =>
          LET n == IF api.last.k = 0 THEN 0
                   ELSE api.handles[api.last.k].node
              count == IF n = 0 THEN 0 ELSE Len(api.tree.kids[n])
              Default == [kind |-> "default", node |-> 0, count |-> 0]
          IN  IF n = 0 THEN api.last.out = Default
              ELSE IF api.last.fn # "getChildNode"
              THEN api.last.out = [kind |-> "data", node |-> n,
                                   count |-> count]
              ELSE IF api.last.index < 0 \/ api.last.index >= count
              THEN api.last.out = Default
              ELSE /\ api.last.out.kind = "data"
                   /\ api.last.out.node = api.tree.kids[n][api.last.index + 1]

\* ------------------------------------------------------------------- C37
\* C37: in every returned tree the directory flag of a node is true exactly
\* when its path is a directory on disk that is not a symlink, readable or
\* not, skipped or not, and a node whose flag is false has no children.
C37_DirectoryFlagMatchesDisk ==
    Returned =>
        \A n \in Tree :
            /\ n.isDirectory <=> is_directory(n.path)
            /\ ~n.isDirectory => n.children = <<>>

\* --------------------------------------------------- functions on their own
UnitInit ==
    /\ WalkerAtRest
    /\ unit \in InfoInputs \cup SkipInputs \cup CoverInputs \cup MountInputs
                \cup PoolInputs
    /\ api = NoApi

UnitNext ==
    \/ InfoUnit
    \/ SkipUnit
    \/ CoverUnit
    \/ MountUnit
    \/ PoolUnit

UnitSpec == UnitInit /\ [][UnitNext]_vars

\* the command-line front-end on its own
CliInit ==
    /\ WalkerAtRest
    /\ unit \in MainInputs
    /\ api = NoApi

CliNext ==
    \/ MainStart
    \/ MainArg
    \/ MainRun

CliSpec == CliInit /\ [][CliNext]_vars

====
